---- MODULE Spec2Model ----
(***************************************************************************)
(* SpendWise tracker: the transactions table and its five HTTP handlers    *)
(* (server.ts), the React client that drives them (App.tsx) and the        *)
(* aggregates the client derives from the fetched list.                    *)
(*                                                                         *)
(* Representation.                                                         *)
(*  - A JSON value that may be null is a sequence of length <= 1:          *)
(*    None is null, Some(v) is v.                                          *)
(*  - A currency amount is an integer number of cents (10 is 1000), so     *)
(*    sums are exact; IEEE-754 rounding of the JS numbers is not modelled. *)
(*  - A date string "YYYY-MM-DD" is the tuple <<YYYY, MM, DD>> and the     *)
(*    empty string is <<>>; comparing ISO strings of that fixed width is   *)
(*    comparing the tuples lexicographically.                              *)
(***************************************************************************)
EXTENDS Integers, Sequences, FiniteSets, TLC

VARIABLES
    \* server.ts: the transactions table and the sqlite_sequence counter
    store, seq,
    \* the last request/response pair seen on the HTTP API (SpecApi only)
    exchange,
    \* App.tsx: component state
    transactions, loading, isFormOpen, isReportOpen, editingTransaction,
    type, amount, category, date, note, isDeleting, isClearingAll,
    \* App.tsx: fetch() calls that have been issued and not yet settled
    net,
    \* observer: a list response has been handed to setTransactions while a
    \* list response the server produced before it was still on its way
    overtaken,
    \* App.tsx: the useMemo values of the last render (SpecAgg only)
    totals, categoryTotals, monthlyReport,
    \* App.tsx: the month and the lines of the last CSV export (SpecAgg only)
    csv

serverVars == <<store, seq>>
formVars   == <<type, amount, category, date, note>>
uiVars     == <<transactions, loading, isFormOpen, isReportOpen,
                editingTransaction, isDeleting, isClearingAll>>
memoVars   == <<totals, categoryTotals, monthlyReport, csv>>
vars       == <<store, seq, exchange, transactions, loading, isFormOpen,
                isReportOpen, editingTransaction, type, amount, category,
                date, note, isDeleting, isClearingAll, net, overtaken,
                totals, categoryTotals, monthlyReport, csv>>

----------------------------------------------------------------------------
(* Bounds of the model *)

\* ids the table hands out before the model stops creating rows
MaxId == 2

\* JSON null / SQL NULL / a JS null, and a present value
None == <<>>
Some(v) == <<v>>
Val(o) == o[1]

----------------------------------------------------------------------------
(* types: Transaction and CATEGORIES *)

TransactionTypes == {"expense", "revenue"}

CATEGORIES ==
    [expense |-> <<"Food", "Transport", "Rent", "Utilities", "Entertainment",
                   "Shopping", "Health", "Education", "Other">>,
     revenue |-> <<"Salary", "Freelance", "Investment", "Gift", "Other">>]

Range(s) == {s[i] : i \in DOMAIN s}

Today    == <<2024, 1, 15>>
Earlier  == <<2023, 12, 31>>

----------------------------------------------------------------------------
(* server.ts: the table.  A row is                                          *)
(*   [id, type, amount, category, date, note]                               *)
(* with note nullable (None or Some(text)) and the other columns NOT NULL.  *)

RowIds(rows) == {r.id : r \in rows}

RowOf(rows, i) == CHOOSE r \in rows : r.id = i

\* CREATE TABLE: type, amount, category and date are NOT NULL.  A statement
\* that binds null to one of them throws and changes nothing.
ViolatesNotNull(b) ==
    \/ b.type = None
    \/ b.amount = None
    \/ b.category = None
    \/ b.date = None

\* The row an INSERT or UPDATE writes for request body b under id i.
RowFrom(i, b) ==
    [id |-> i, type |-> Val(b.type), amount |-> Val(b.amount),
     category |-> Val(b.category), date |-> Val(b.date), note |-> b.note]

\* { id: <id>, ...req.body }: a key id of the body overrides the first one.
Echo(i, b) ==
    [id |-> IF b.id = None THEN Some(i) ELSE b.id, type |-> b.type,
     amount |-> b.amount, category |-> b.category, date |-> b.date,
     note |-> b.note]

\* Mutation: the id is one more than the number of rows, so an id freed by
\* a delete is handed out again.
NextRowIdByCount(rows, sq) == Cardinality(rows) + 1

\* id INTEGER PRIMARY KEY AUTOINCREMENT: one more than the largest id the
\* table has ever held, which sqlite_sequence remembers across deletes.
NextRowId(rows, sq) == sq + 1

\* POST /api/transactions.  No try/catch: a throwing statement reaches the
\* default error handler of express, which answers 500.
Post(rows, sq, b) ==
    IF ViolatesNotNull(b)
    THEN [rows |-> rows, seq |-> sq, status |-> 500, body |-> "error page"]
    ELSE LET i == NextRowId(rows, sq)
         IN  [rows |-> rows \cup {RowFrom(i, b)}, seq |-> i,
              status |-> 200, body |-> Echo(i, b)]

\* Mutation: the SET list leaves out the note column.
UpdateRowsKeepNote(rows, i, b) ==
    {IF r.id = i THEN [RowFrom(i, b) EXCEPT !.note = r.note] ELSE r : r \in rows}

\* UPDATE transactions SET ... WHERE id = ?
UpdateRows(rows, i, b) ==
    {IF r.id = i THEN RowFrom(i, b) ELSE r : r \in rows}

\* PUT /api/transactions/:id.  The NOT NULL constraints are checked on the
\* rows the UPDATE writes: with no row of that id nothing is written and
\* nothing throws.
Put(rows, sq, i, b) ==
    IF ViolatesNotNull(b) /\ i \in RowIds(rows)
    THEN [rows |-> rows, seq |-> sq, status |-> 500,
          body |-> [message |-> "Internal server error"]]
    ELSE [rows |-> UpdateRows(rows, i, b), seq |-> sq, status |-> 200,
          body |-> Echo(i, b)]

\* Mutation: the statement's change count is not reported (0, as a
\* truncating delete would count).
DeleteAllUncounted(rows, sq) ==
    [rows |-> {}, seq |-> sq, status |-> 200,
     body |-> [success |-> TRUE, changes |-> 0]]

\* Mutation: the wipe also forgets the largest id handed out, as a table
\* whose id is not AUTOINCREMENT does.
DeleteAllForgetful(rows, sq) ==
    [rows |-> {}, seq |-> 0, status |-> 200,
     body |-> [success |-> TRUE, changes |-> Cardinality(rows)]]

\* DELETE /api/transactions
DeleteAll(rows, sq) ==
    [rows |-> {}, seq |-> sq, status |-> 200,
     body |-> [success |-> TRUE, changes |-> Cardinality(rows)]]

\* DELETE FROM transactions WHERE id = ?
DeleteRows(rows, i) == {r \in rows : r.id # i}

\* Mutation: result.changes is not looked at, as in the PUT handler.
DeleteOneUnchecked(rows, sq, i) ==
    [rows |-> DeleteRows(rows, i), seq |-> sq, status |-> 200,
     body |-> [success |-> TRUE]]

\* DELETE /api/transactions/:id
DeleteOne(rows, sq, i) ==
    LET left == DeleteRows(rows, i)
        changes == Cardinality(rows) - Cardinality(left)
    IN  IF changes = 0
        THEN [rows |-> rows, seq |-> sq, status |-> 404,
              body |-> [message |-> "Transaction not found"]]
        ELSE [rows |-> left, seq |-> sq, status |-> 200,
              body |-> [success |-> TRUE]]

\* a before b in ORDER BY date DESC; rows of one date come in any order
DateAfter(a, b) ==
    \/ a[1] > b[1]
    \/ a[1] = b[1] /\ a[2] > b[2]
    \/ a[1] = b[1] /\ a[2] = b[2] /\ a[3] > b[3]

\* The lists SELECT * FROM transactions ORDER BY date DESC may return.
Listings(rows) ==
    {l \in [1..Cardinality(rows) -> rows] :
        /\ \A i, j \in DOMAIN l : i # j => l[i] # l[j]
        /\ \A i, j \in DOMAIN l : i < j => ~DateAfter(l[j].date, l[i].date)}

\* GET /api/transactions
GetAll(rows, sq) ==
    {[rows |-> rows, seq |-> sq, status |-> 200, body |-> l] :
        l \in Listings(rows)}

----------------------------------------------------------------------------
(* App.tsx: the aggregates a render derives from the transactions state *)

\* the reducer of totals: every transaction that is not a revenue counts as
\* an expense
TotalsStep(acc, t) ==
    IF t.type = "revenue"
    THEN [acc EXCEPT !.revenue = @ + t.amount]
    ELSE [acc EXCEPT !.expense = @ + t.amount]

RECURSIVE Reduce(_, _, _)
Reduce(list, k, acc) ==
    IF k > Len(list) THEN acc ELSE Reduce(list, k + 1, TotalsStep(acc, list[k]))

\* totals = transactions.reduce(..., { revenue: 0, expense: 0 })
Totals(list) == Reduce(list, 1, [revenue |-> 0, expense |-> 0])

\* The object map as its entries in insertion order: a key that is already
\* there keeps its place, a new key goes last.
HasKey(entries, k) == \E i \in DOMAIN entries : entries[i][1] = k

\* map[k] = (map[k] || 0) + a
AddTo(entries, k, a) ==
    IF HasKey(entries, k)
    THEN [i \in DOMAIN entries |->
            IF entries[i][1] = k THEN <<k, entries[i][2] + a>> ELSE entries[i]]
    ELSE Append(entries, <<k, 0 + a>>)

\* the forEach of categoryTotals: only a transaction of type 'expense' is
\* entered
CategoryStep(entries, t) ==
    IF t.type = "expense" THEN AddTo(entries, t.category, t.amount) ELSE entries

RECURSIVE CategoryMap(_, _, _)
CategoryMap(list, k, entries) ==
    IF k > Len(list) THEN entries
    ELSE CategoryMap(list, k + 1, CategoryStep(entries, list[k]))

\* sort((a, b) => b[1] - a[1]): Array.prototype.sort is stable, so e goes
\* behind every entry that does not compare after it
RECURSIVE InsertDesc(_, _)
InsertDesc(sorted, e) ==
    IF sorted = <<>> THEN <<e>>
    ELSE IF Head(sorted)[2] - e[2] < 0
         THEN <<e>> \o sorted
         ELSE <<Head(sorted)>> \o InsertDesc(Tail(sorted), e)

RECURSIVE SortDesc(_, _, _)
SortDesc(entries, k, sorted) ==
    IF k > Len(entries) THEN sorted
    ELSE SortDesc(entries, k + 1, InsertDesc(sorted, entries[k]))

\* categoryTotals = Object.entries(map).sort(...)
CategoryTotals(list) == SortDesc(CategoryMap(list, 1, <<>>), 1, <<>>)

\* t.note || ''
NoteText(n) == IF n = None THEN "" ELSE Val(n)

\* t.date.substring(0, 7): "YYYY-MM" is <<YYYY, MM>>
MonthOf(d) == SubSeq(d, 1, IF Len(d) < 2 THEN Len(d) ELSE 2)

\* months[month].categories[c] = (... || 0) + a, or revenue += a
MonthAdd(data, t) ==
    IF t.type = "revenue"
    THEN [data EXCEPT !.revenue = @ + t.amount]
    ELSE [data EXCEPT !.expense = @ + t.amount,
                      !.categories = AddTo(@, t.category, t.amount)]

\* the forEach of monthlyReport: the month's entry is made when it is
\* missing; a transaction that is not a revenue goes to expense and to the
\* categories of the month
MonthStep(months, t) ==
    LET m == MonthOf(t.date)
        made == IF HasKey(months, m) THEN months
                ELSE Append(months,
                        <<m, [revenue |-> 0, expense |-> 0, categories |-> <<>>]>>)
    IN  [i \in DOMAIN made |->
            IF made[i][1] = m THEN <<m, MonthAdd(made[i][2], t)>> ELSE made[i]]

RECURSIVE MonthMap(_, _, _)
MonthMap(list, k, months) ==
    IF k > Len(list) THEN months
    ELSE MonthMap(list, k + 1, MonthStep(months, list[k]))

\* a.localeCompare(b) > 0 for two keys of the form "YYYY-MM"
MonthAfter(a, b) ==
    \/ a[1] > b[1]
    \/ a[1] = b[1] /\ a[2] > b[2]

\* sort((a, b) => b[0].localeCompare(a[0])), stable
RECURSIVE InsertMonth(_, _)
InsertMonth(sorted, e) ==
    IF sorted = <<>> THEN <<e>>
    ELSE IF MonthAfter(e[1], Head(sorted)[1])
         THEN <<e>> \o sorted
         ELSE <<Head(sorted)>> \o InsertMonth(Tail(sorted), e)

RECURSIVE SortMonths(_, _, _)
SortMonths(entries, k, sorted) ==
    IF k > Len(entries) THEN sorted
    ELSE SortMonths(entries, k + 1, InsertMonth(sorted, entries[k]))

\* monthlyReport = Object.entries(months).sort(...)
MonthlyReport(list) == SortMonths(MonthMap(list, 1, <<>>), 1, <<>>)

\* t.date.startsWith(month)
StartsWith(d, m) == Len(d) >= Len(m) /\ SubSeq(d, 1, Len(m)) = m

\* transactions.filter(t => t.date.startsWith(month))
RECURSIVE MonthTransactions(_, _)
MonthTransactions(list, m) ==
    IF list = <<>> THEN <<>>
    ELSE IF StartsWith(Head(list).date, m)
         THEN <<Head(list)>> \o MonthTransactions(Tail(list), m)
         ELSE MonthTransactions(Tail(list), m)

\* the fields of one exported row: date, type, category, amount, note || ''
CsvRow(t) == <<t.date, t.type, t.category, t.amount, NoteText(t.note)>>

CsvHeaders == <<"Date", "Type", "Category", "Amount", "Note">>

\* handleExportCSV: the header line, then one line per transaction of the
\* month, whatever its type
CsvLines(list, m) ==
    LET rows == MonthTransactions(list, m)
    IN  <<CsvHeaders>> \o [i \in DOMAIN rows |-> CsvRow(rows[i])]

----------------------------------------------------------------------------
(* Initial state: an empty tracker.db, a freshly mounted component *)

NoExchange ==
    [method |-> "none", id |-> None, status |-> 0, body |-> None]

InitServer ==
    /\ store = {}
    /\ seq = 0

InitComponent ==
    /\ transactions = <<>>
    /\ loading = TRUE
    /\ isFormOpen = FALSE
    /\ isReportOpen = FALSE
    /\ editingTransaction = None
    /\ type = "expense"
    /\ amount = ""
    /\ category = ""
    /\ date = Today
    /\ note = ""
    /\ isDeleting = None
    /\ isClearingAll = FALSE

InitMemo ==
    /\ totals = [revenue |-> 0, expense |-> 0]
    /\ categoryTotals = <<>>
    /\ monthlyReport = <<>>
    /\ csv = None

----------------------------------------------------------------------------
(* SpecApi: the HTTP API driven directly, by any client *)

\* Request bodies: one well-formed body and the bodies that differ from it
\* in one field, among them a caller-chosen id, a type outside the two
\* documented ones and a null in every column.
BaseBody ==
    [id |-> None, type |-> Some("expense"), amount |-> Some(1000),
     category |-> Some("Food"), date |-> Some(Today), note |-> Some("memo")]

ApiBodies ==
    {BaseBody}
    \cup {[BaseBody EXCEPT !.id = Some(1)]}
    \cup {[BaseBody EXCEPT !.type = t] : t \in {Some("revenue"), Some("transfer"), None}}
    \cup {[BaseBody EXCEPT !.amount = a] : a \in {Some(-500), None}}
    \cup {[BaseBody EXCEPT !.category = c] : c \in {Some("Salary"), None}}
    \cup {[BaseBody EXCEPT !.date = d] : d \in {Some(Earlier), None}}
    \cup {[BaseBody EXCEPT !.note = n] : n \in {Some(""), None}}

\* ids a request path may name: those handed out so far and one more
PathIds == 1..(MaxId + 1)

Served(method, i, out) ==
    /\ store' = out.rows
    /\ seq' = out.seq
    /\ exchange' = [method |-> method, id |-> i, status |-> out.status,
                    body |-> out.body]
    /\ UNCHANGED <<uiVars, formVars, net, overtaken, memoVars>>

ApiGet ==
    \E out \in GetAll(store, seq) : Served("GET", None, out)

ApiPost(b) ==
    /\ seq < MaxId
    /\ Served("POST", None, Post(store, seq, b))

ApiPut(i, b) == Served("PUT", Some(i), Put(store, seq, i, b))

ApiDeleteAll == Served("DELETE", None, DeleteAll(store, seq))

ApiDeleteOne(i) == Served("DELETE", Some(i), DeleteOne(store, seq, i))

InitApi ==
    /\ InitServer
    /\ InitComponent
    /\ InitMemo
    /\ exchange = NoExchange
    /\ net = <<>>
    /\ overtaken = FALSE

NextApi ==
    \/ ApiGet
    \/ \E b \in ApiBodies : ApiPost(b)
    \/ \E i \in PathIds, b \in ApiBodies : ApiPut(i, b)
    \/ ApiDeleteAll
    \/ \E i \in PathIds : ApiDeleteOne(i)

SpecApi == InitApi /\ [][NextApi]_vars

----------------------------------------------------------------------------
(* Claims about the store *)

UniqueIds == \A r1, r2 \in store : r1.id = r2.id => r1 = r2

CreateAssignsFreshId ==
    \A b \in ApiBodies :
        ApiPost(b) /\ exchange'.status = 200 =>
            \E r \in store' :
                /\ r.id \notin RowIds(store)
                /\ store' = store \cup {r}
                /\ r.id = seq + 1
                /\ r.id = seq'

\* C1: no two stored transactions share an id, and every create gives the
\* new row an id that is taken from the table's own counter, whatever id the
\* request body carries, and that no row present at that moment has.
C1_UniqueFreshIds == []UniqueIds /\ [][CreateAssignsFreshId]_vars

\* A create answered 200 while another row was stored, for a body that
\* carries an id of its own, which is not the id the new row received.
C1_Witness ==
    /\ exchange.method = "POST"
    /\ exchange.status = 200
    /\ Cardinality(store) = 2
    /\ exchange.body.id # None
    /\ exchange.body.id # Some(seq)
    /\ \E r \in store : r.id = seq

\* The row of store2 under id i holds exactly the five values of body b.
HoldsBody(store2, i, b) ==
    \E r \in store2 :
        /\ r.id = i
        /\ Some(r.type) = b.type
        /\ Some(r.amount) = b.amount
        /\ Some(r.category) = b.category
        /\ Some(r.date) = b.date
        /\ r.note = b.note

OthersKept(i) ==
    /\ {r \in store' : r.id # i} = {r \in store : r.id # i}
    /\ Cardinality(store') = Cardinality(store)
    /\ RowIds(store') = RowIds(store)

C3_DeleteOne ==
    [][\A i \in PathIds :
          ApiDeleteOne(i) =>
              IF i \in RowIds(store)
              THEN /\ store' = store \ {RowOf(store, i)}
                   /\ exchange'.status = 200
                   /\ exchange'.body = [success |-> TRUE]
              ELSE /\ store' = store
                   /\ exchange'.status = 404
                   /\ exchange'.body = [message |-> "Transaction not found"]]_vars

\* A delete-one answered 200 that left other rows in place.
C3_Witness ==
    /\ exchange.method = "DELETE"
    /\ exchange.id # None
    /\ exchange.status = 200
    /\ store # {}
    /\ Val(exchange.id) \notin RowIds(store)

\* C4: a delete-all leaves the store empty and reports as 'changes' the
\* number of rows present before it.
C4_DeleteAll ==
    [][ApiDeleteAll =>
          /\ store' = {}
          /\ exchange'.status = 200
          /\ exchange'.body.changes = Cardinality(store)]_vars

\* A delete-all that removed at least two rows.
C4_Witness ==
    /\ exchange.method = "DELETE"
    /\ exchange.id = None
    /\ exchange.status = 200
    /\ exchange.body.changes >= 2
    /\ store = {}

\* A create answered with success added one row r that holds the five values
\* of body b, and left the rows that were there as they were.
CreateAdds(r, b) ==
    /\ r \notin store
    /\ r.id \notin RowIds(store)
    /\ store' = store \cup {r}
    /\ HoldsBody(store', r.id, b)
    /\ Cardinality(store') = Cardinality(store) + 1

\* C13: a successful create adds exactly one row holding the type, amount,
\* category, date and note of the request body, leaves every existing row
\* unchanged, grows the row count by one and answers with the id of the new
\* row.
C13_CreateAddsRow ==
    [][\A b \in ApiBodies :
          ApiPost(b) /\ exchange'.status = 200 =>
              \E r \in store' :
                  /\ CreateAdds(r, b)
                  /\ exchange'.body.id = Some(r.id)]_vars

\* What the create handler keeps of C13: the row is added as stated, and the
\* answer carries the id of the new row when the body has no id of its own,
\* the body's id otherwise.
C13_CreateEchoesBodyId ==
    [][\A b \in ApiBodies :
          ApiPost(b) /\ exchange'.status = 200 =>
              \E r \in store' :
                  /\ CreateAdds(r, b)
                  /\ exchange'.body.id = (IF b.id = None THEN Some(r.id) ELSE b.id)]_vars

\* ids the table has handed out and that no row has now: the removed ids
RemovedIds == (1..seq) \ RowIds(store)

\* C14: an id removed by delete-one or delete-all never names a row again:
\* every stored id is one the counter has handed out, the counter never goes
\* back (so a create, also after a wipe, takes an id above every removed
\* one), and no request, an update addressed to a removed id included, makes
\* a row with a removed id.
C14_RemovedIdsStayRemoved ==
    /\ [](RowIds(store) \subseteq 1..seq)
    /\ [][/\ seq' >= seq
          /\ \A i \in RemovedIds : i \notin RowIds(store')]_vars

\* A create answered with success after id 1 had been removed: the new row
\* has the next id, and id 1 names no row.
C14_Witness ==
    /\ exchange.method = "POST"
    /\ exchange.status = 200
    /\ 1 \in RemovedIds
    /\ RowIds(store) = {seq}
    /\ seq = MaxId

\* The answer to an update of id i with body b names id i and repeats the
\* five fields of b.
EchoesRequest(i, b) ==
    /\ exchange'.status = 200
    /\ exchange'.body.id = Some(i)
    /\ \A f \in {"type", "amount", "category", "date", "note"} :
          exchange'.body[f] = b[f]

\* The answer is the one the same request gets when a row of id i is there
\* and the update is applied to it.
AnsweredAsApplied(i, b) ==
    LET applied == Put(store \cup {RowFrom(i, BaseBody)}, seq, i, b)
    IN  ~ViolatesNotNull(b) =>
            /\ exchange'.status = applied.status
            /\ exchange'.body = applied.body

\* delete-one of an id no row has answers 404
DeleteOfMissingIs404 ==
    \A i \in PathIds :
        ApiDeleteOne(i) /\ i \notin RowIds(store) => exchange'.status = 404

\* C15: an update of an id no row has leaves the store unchanged and is
\* answered with success, the answer giving the id of the request and the
\* fields of its body, which is the answer of an update that was applied;
\* delete-one of such an id answers 404.
C15_UpdateOfMissingId ==
    [][/\ \A i \in PathIds, b \in ApiBodies :
             ApiPut(i, b) /\ i \notin RowIds(store) =>
                 /\ store' = store
                 /\ EchoesRequest(i, b)
                 /\ AnsweredAsApplied(i, b)
       /\ DeleteOfMissingIs404]_vars

\* What the update handler keeps of C15: all of it, except that the id of
\* the answer is the id of the body when the body has one.
C15_UpdateOfMissingIdEchoesBodyId ==
    [][/\ \A i \in PathIds, b \in ApiBodies :
             ApiPut(i, b) /\ i \notin RowIds(store) =>
                 /\ store' = store
                 /\ exchange'.status = 200
                 /\ exchange'.body = Echo(i, b)
                 /\ b.id = None => EchoesRequest(i, b)
                 /\ AnsweredAsApplied(i, b)
       /\ DeleteOfMissingIs404]_vars

\* C6: every stored transaction has type 'expense' or 'revenue'.
C6_TypesValid == \A r \in store : r.type \in TransactionTypes

----------------------------------------------------------------------------
(* SpecAgg: one render over a fetched list *)

\* longest list a render is given
MaxLen == 3

\* Rows a list response can hold: the two documented types and one the API
\* stores as well, amounts that cancel, two categories, two months.
AggRows ==
    [type : {"expense", "revenue", "transfer"}, amount : {1000, 500, -500},
     category : {"Food", "Rent"}, date : {Today, Earlier}, note : {None}]

WithIds(l) == [i \in DOMAIN l |->
    [id |-> i, type |-> l[i].type, amount |-> l[i].amount,
     category |-> l[i].category, date |-> l[i].date, note |-> l[i].note]]

\* the lists GET /api/transactions can answer with, newest date first
AggLists ==
    {WithIds(l) : l \in
        {m \in UNION {[1..n -> AggRows] : n \in 0..MaxLen} :
            \A i, j \in DOMAIN m : i < j => ~DateAfter(m[j].date, m[i].date)}}

InitAgg ==
    /\ InitServer
    /\ exchange = NoExchange
    /\ net = <<>>
    /\ overtaken = FALSE
    /\ transactions \in AggLists
    /\ loading = FALSE
    /\ isFormOpen = FALSE
    /\ isReportOpen = FALSE
    /\ editingTransaction = None
    /\ type = "expense"
    /\ amount = ""
    /\ category = ""
    /\ date = Today
    /\ note = ""
    /\ isDeleting = None
    /\ isClearingAll = FALSE
    /\ totals = None
    /\ categoryTotals = None
    /\ monthlyReport = None
    /\ csv = None

Rendered == totals # None

\* the render that follows setTransactions: the useMemo values are
\* recomputed from the new list
Render ==
    /\ totals = None
    /\ totals' = Totals(transactions)
    /\ categoryTotals' = CategoryTotals(transactions)
    /\ monthlyReport' = MonthlyReport(transactions)
    /\ UNCHANGED <<serverVars, exchange, uiVars, formVars, net, overtaken, csv>>

\* the download button of a month card of the report:
\* handleExportCSV(month, data)
ExportCSV(k) ==
    /\ Rendered
    /\ k \in DOMAIN monthlyReport
    /\ csv' = Some([month |-> monthlyReport[k][1],
                    lines |-> CsvLines(transactions, monthlyReport[k][1])])
    /\ UNCHANGED <<serverVars, exchange, uiVars, formVars, net, overtaken,
                   totals, categoryTotals, monthlyReport>>

\* month cards a report shows
MaxMonths == 2

NextAgg ==
    \/ Render
    \/ \E k \in 1..MaxMonths : ExportCSV(k)

SpecAgg == InitAgg /\ [][NextAgg]_vars

RECURSIVE SumAmounts(_, _)
SumAmounts(list, S) ==
    IF S = {} THEN 0
    ELSE LET i == CHOOSE x \in S : TRUE
         IN  list[i].amount + SumAmounts(list, S \ {i})

OfType(list, ty) == {i \in DOMAIN list : list[i].type = ty}

ExpensesOf(list, c) ==
    {i \in DOMAIN list : list[i].type = "expense" /\ list[i].category = c}

RECURSIVE SumValues(_)
SumValues(entries) ==
    IF entries = <<>> THEN 0 ELSE Head(entries)[2] + SumValues(Tail(entries))

\* C9: totals.revenue is the sum of the amounts of the revenue transactions
\* and totals.expense the sum of the amounts of the expense transactions;
\* together they are the sum of all amounts, and both are 0 for the empty
\* list.
C9_Totals ==
    Rendered =>
        /\ totals.revenue = SumAmounts(transactions, OfType(transactions, "revenue"))
        /\ totals.expense = SumAmounts(transactions, OfType(transactions, "expense"))
        /\ totals.revenue + totals.expense = SumAmounts(transactions, DOMAIN transactions)
        /\ transactions = <<>> => totals.revenue = 0 /\ totals.expense = 0

\* C10: categoryTotals has one entry per category of an expense transaction,
\* valued with the sum of the expense amounts of that category (revenues
\* enter nowhere), in descending order of value, and the values add up to
\* totals.expense.
C10_CategoryTotals ==
    Rendered =>
        /\ {categoryTotals[i][1] : i \in DOMAIN categoryTotals}
              = {transactions[i].category : i \in OfType(transactions, "expense")}
        /\ \A i, j \in DOMAIN categoryTotals :
              i # j => categoryTotals[i][1] # categoryTotals[j][1]
        /\ \A i \in DOMAIN categoryTotals :
              categoryTotals[i][2]
                 = SumAmounts(transactions, ExpensesOf(transactions, categoryTotals[i][1]))
        /\ \A i, j \in DOMAIN categoryTotals :
              i < j => categoryTotals[i][2] >= categoryTotals[j][2]
        /\ SumValues(categoryTotals) = totals.expense

\* Every type of the list is one of the two the Transaction interface names.
TypedList ==
    \A i \in DOMAIN transactions : transactions[i].type \in TransactionTypes

\* C9 and C10 on the lists that hold the two documented types only.
C9_TotalsOfTypedList == TypedList => C9_Totals

C10_CategoryTotalsOfTypedList == TypedList => C10_CategoryTotals

\* positions of the list whose date has the "YYYY-MM" prefix m
OfMonth(list, m) == {i \in DOMAIN list : MonthOf(list[i].date) = m}

RECURSIVE SumRevenue(_)
SumRevenue(entries) ==
    IF entries = <<>> THEN 0
    ELSE Head(entries)[2].revenue + SumRevenue(Tail(entries))

RECURSIVE SumExpense(_)
SumExpense(entries) ==
    IF entries = <<>> THEN 0
    ELSE Head(entries)[2].expense + SumExpense(Tail(entries))

\* C11: monthlyReport has exactly one entry per distinct YYYY-MM prefix of
\* the transaction dates, in descending order of month; the revenue and the
\* expense of an entry are the sums of the amounts of the month's revenue and
\* expense transactions, the per-category values of an entry add up to its
\* expense, and revenue and expense summed over the months are
\* totals.revenue and totals.expense.
C11_MonthlyReport ==
    Rendered =>
        /\ {monthlyReport[i][1] : i \in DOMAIN monthlyReport}
              = {MonthOf(transactions[i].date) : i \in DOMAIN transactions}
        /\ \A i, j \in DOMAIN monthlyReport :
              i < j => MonthAfter(monthlyReport[i][1], monthlyReport[j][1])
        /\ \A i \in DOMAIN monthlyReport :
              LET m == monthlyReport[i][1]
                  data == monthlyReport[i][2]
              IN  /\ data.revenue = SumAmounts(transactions,
                        OfMonth(transactions, m) \cap OfType(transactions, "revenue"))
                  /\ data.expense = SumAmounts(transactions,
                        OfMonth(transactions, m) \cap OfType(transactions, "expense"))
                  /\ SumValues(data.categories) = data.expense
        /\ SumRevenue(monthlyReport) = totals.revenue
        /\ SumExpense(monthlyReport) = totals.expense

\* C11 on the lists that hold the two documented types only.
C11_MonthlyReportOfTypedList == TypedList => C11_MonthlyReport

\* the exported lines are the header and then, one for one, the rows of the
\* positions S of the list
ExportsExactly(lines, list, S) ==
    /\ Len(lines) = 1 + Cardinality(S)
    /\ lines[1] = CsvHeaders
    /\ \A k \in 2..Len(lines) : \E i \in S : lines[k] = CsvRow(list[i])
    /\ \A i \in S : \E k \in 2..Len(lines) : lines[k] = CsvRow(list[i])

\* C12: an export for a month key of the report is a header row followed by
\* exactly one row per expense transaction of that month.
C12_ExportsExpenses ==
    csv # None =>
        ExportsExactly(Val(csv).lines, transactions,
            OfMonth(transactions, Val(csv).month) \cap OfType(transactions, "expense"))

\* C12 on the lists that hold the two documented types only.
C12_ExportsExpensesOfTypedList == TypedList => C12_ExportsExpenses

\* What the export holds: one row per transaction of the month, revenues
\* included.
C12_ExportsMonth ==
    csv # None =>
        ExportsExactly(Val(csv).lines, transactions,
            OfMonth(transactions, Val(csv).month))

----------------------------------------------------------------------------
(* App.tsx: the component, its fetch() calls and the server behind them *)

\* calls the client has in flight at a time
MaxCalls == 2

\* rows the client creates before the model stops submitting new entries
MaxCreates == 1

\* parseFloat of the texts the amount input is given; None is NaN, which
\* JSON.stringify writes as null
ParseFloat(text) ==
    CASE text = "10" -> Some(1000)
      [] text = "0"  -> Some(0)
      [] text = "-5" -> Some(-500)
      [] OTHER       -> None

\* Number.prototype.toString of the amounts above
NumberToString(n) ==
    CASE n = 1000 -> "10"
      [] n = 0    -> "0"
      [] n = -500 -> "-5"

\* A fetch() call: what was asked, the closure values its continuation uses
\* (editing: editingTransaction?.id of the render that started handleDelete;
\* next: what follows the awaited fetchTransactions) and, once the server has
\* answered, the response.
NewCall(kind, i, b, editing, next) ==
    [kind |-> kind, phase |-> "sent", id |-> i, body |-> b,
     editing |-> editing, next |-> next, status |-> 0, res |-> None]

\* fetchTransactions: GET /api/transactions
FetchCall(next) == NewCall("fetch", None, None, None, next)

Remove(s, k) == SubSeq(s, 1, k - 1) \o SubSeq(s, k + 1, Len(s))

\* POST requests issued and not yet served
UnservedCreates ==
    Cardinality({k \in DOMAIN net :
        net[k].kind = "save" /\ net[k].phase = "sent" /\ net[k].id = None})

\* The layer that receives the pointer: the overlays and modals are fixed
\* inset-0 boxes stacked by z-index (clear-all 200, delete 100, report 60,
\* form 50) over the new-entry button (40) and the page.
Top ==
    CASE isClearingAll     -> "clear"
      [] isDeleting # None -> "delete"
      [] isReportOpen      -> "report"
      [] isFormOpen        -> "form"
      [] OTHER             -> "page"

\* resetForm
ResetForm ==
    /\ type' = "expense"
    /\ amount' = ""
    /\ category' = ""
    /\ date' = Today
    /\ note' = ""
    /\ editingTransaction' = None

\* new-entry button: resetForm(); setIsFormOpen(true)
OpenNew ==
    /\ Top = "page"
    /\ ResetForm
    /\ isFormOpen' = TRUE
    /\ UNCHANGED <<serverVars, exchange, transactions, loading, isReportOpen,
                   isDeleting, isClearingAll, net, overtaken, memoVars>>

\* handleEdit(t), from a row of the rendered list
HandleEdit(k) ==
    /\ Top = "page"
    /\ ~loading
    /\ k \in DOMAIN transactions
    /\ LET t == transactions[k]
       IN  /\ editingTransaction' = Some(t)
           /\ type' = t.type
           /\ amount' = NumberToString(t.amount)
           /\ category' = t.category
           /\ date' = t.date
           /\ note' = NoteText(t.note)
    /\ isFormOpen' = TRUE
    /\ UNCHANGED <<serverVars, exchange, transactions, loading, isReportOpen,
                   isDeleting, isClearingAll, net, overtaken, memoVars>>

\* the X of the form: setIsFormOpen(false)
CloseForm ==
    /\ Top = "form"
    /\ isFormOpen' = FALSE
    /\ UNCHANGED <<serverVars, exchange, transactions, loading, isReportOpen,
                   editingTransaction, formVars, isDeleting, isClearingAll,
                   net, overtaken, memoVars>>

\* Mutation: the toggle sets the type and leaves the category selected.
SetTypeKeepCategory(ty) ==
    /\ Top = "form"
    /\ type' = ty
    /\ UNCHANGED <<serverVars, exchange, uiVars, amount, category, date, note,
                   net, overtaken, memoVars>>

\* type toggle: setType(ty); setCategory('')
SetType(ty) ==
    /\ Top = "form"
    /\ type' = ty
    /\ category' = ""
    /\ UNCHANGED <<serverVars, exchange, uiVars, amount, date, note, net,
                   overtaken, memoVars>>

\* amount input (type=number) and its clear button
SetAmount(text) ==
    /\ Top = "form"
    /\ amount' = text
    /\ UNCHANGED <<serverVars, exchange, uiVars, type, category, date, note,
                   net, overtaken, memoVars>>

\* category select: "Select..." ('') or an option of CATEGORIES[type]
SetCategory(c) ==
    /\ Top = "form"
    /\ c = "" \/ c \in Range(CATEGORIES[type])
    /\ category' = c
    /\ UNCHANGED <<serverVars, exchange, uiVars, type, amount, date, note,
                   net, overtaken, memoVars>>

\* date input
SetDate(d) ==
    /\ Top = "form"
    /\ date' = d
    /\ UNCHANGED <<serverVars, exchange, uiVars, type, amount, category, note,
                   net, overtaken, memoVars>>

\* note input and its clear button
SetNote(n) ==
    /\ Top = "form"
    /\ note' = n
    /\ UNCHANGED <<serverVars, exchange, uiVars, type, amount, category, date,
                   net, overtaken, memoVars>>

\* "Clear All Details": resetForm
ClearDetails ==
    /\ Top = "form"
    /\ ResetForm
    /\ UNCHANGED <<serverVars, exchange, transactions, loading, isFormOpen,
                   isReportOpen, isDeleting, isClearingAll, net, overtaken,
                   memoVars>>

\* The browser's constraint validation before onSubmit: the amount input is
\* required and must hold a number, the category select and the date input
\* are required.  The amount input has no min.
FormValid ==
    /\ ParseFloat(amount) # None
    /\ category # ""
    /\ date # <<>>

\* the payload of handleSubmit
Payload ==
    [id |-> None, type |-> Some(type), amount |-> ParseFloat(amount),
     category |-> Some(category), date |-> Some(date), note |-> Some(note)]

\* handleSubmit up to its await: a PUT to editingTransaction.id or a POST;
\* the model lets the user submit while fewer than cap calls are in flight
HandleSubmit(cap) ==
    /\ Top = "form"
    /\ FormValid
    /\ Len(net) < cap
    /\ editingTransaction = None => seq + UnservedCreates < MaxCreates
    /\ net' = Append(net,
          NewCall("save",
                  IF editingTransaction = None THEN None
                  ELSE Some(Val(editingTransaction).id),
                  Payload, None, "none"))
    /\ UNCHANGED <<serverVars, exchange, uiVars, formVars, overtaken, memoVars>>

\* Mutation: the trash button of a row deletes at once, with no overlay.
AskDeleteUnconfirmed(k) ==
    /\ Top = "page"
    /\ ~loading
    /\ k \in DOMAIN transactions
    /\ Len(net) < MaxCalls
    /\ net' = Append(net,
          NewCall("delete", Some(transactions[k].id), None, None, "none"))
    /\ UNCHANGED <<serverVars, exchange, uiVars, formVars, overtaken, memoVars>>

\* trash button of a row: setIsDeleting(t.id)
AskDelete(k) ==
    /\ Top = "page"
    /\ ~loading
    /\ k \in DOMAIN transactions
    /\ isDeleting' = Some(transactions[k].id)
    /\ UNCHANGED <<serverVars, exchange, transactions, loading, isFormOpen,
                   isReportOpen, editingTransaction, formVars, isClearingAll,
                   net, overtaken, memoVars>>

\* trash button of the form: setIsDeleting(editingTransaction.id)
AskDeleteEditing ==
    /\ Top = "form"
    /\ editingTransaction # None
    /\ isDeleting' = Some(Val(editingTransaction).id)
    /\ UNCHANGED <<serverVars, exchange, transactions, loading, isFormOpen,
                   isReportOpen, editingTransaction, formVars, isClearingAll,
                   net, overtaken, memoVars>>

\* Cancel of the delete overlay: setIsDeleting(null)
CancelDelete ==
    /\ Top = "delete"
    /\ isDeleting' = None
    /\ UNCHANGED <<serverVars, exchange, transactions, loading, isFormOpen,
                   isReportOpen, editingTransaction, formVars, isClearingAll,
                   net, overtaken, memoVars>>

\* Delete of the delete overlay: handleDelete(isDeleting) up to its await
HandleDelete ==
    /\ Top = "delete"
    /\ Len(net) < MaxCalls
    /\ net' = Append(net,
          NewCall("delete", isDeleting, None,
                  IF editingTransaction = None THEN None
                  ELSE Some(Val(editingTransaction).id),
                  "none"))
    /\ UNCHANGED <<serverVars, exchange, uiVars, formVars, overtaken, memoVars>>

\* report button and the X of the report
SetIsReportOpen(open) ==
    /\ Top = (IF open THEN "page" ELSE "report")
    /\ isReportOpen' = open
    /\ UNCHANGED <<serverVars, exchange, transactions, loading, isFormOpen,
                   editingTransaction, formVars, isDeleting, isClearingAll,
                   net, overtaken, memoVars>>

\* "clear" button of the report: setIsClearingAll(true)
AskClearAll ==
    /\ Top = "report"
    /\ isClearingAll' = TRUE
    /\ UNCHANGED <<serverVars, exchange, transactions, loading, isFormOpen,
                   isReportOpen, editingTransaction, formVars, isDeleting,
                   net, overtaken, memoVars>>

\* Cancel of the clear-all overlay: setIsClearingAll(false)
CancelClearAll ==
    /\ Top = "clear"
    /\ isClearingAll' = FALSE
    /\ UNCHANGED <<serverVars, exchange, transactions, loading, isFormOpen,
                   isReportOpen, editingTransaction, formVars, isDeleting,
                   net, overtaken, memoVars>>

\* "Yes, Delete Everything": handleClearAll up to its await
HandleClearAll ==
    /\ Top = "clear"
    /\ Len(net) < MaxCalls
    /\ net' = Append(net, NewCall("clear", None, None, None, "none"))
    /\ UNCHANGED <<serverVars, exchange, uiVars, formVars, overtaken, memoVars>>

\* What the server answers to call c in the state it is in.
Outcomes(c) ==
    CASE c.kind = "fetch"  -> GetAll(store, seq)
      [] c.kind = "save"   ->
            {IF c.id = None THEN Post(store, seq, c.body)
                            ELSE Put(store, seq, Val(c.id), c.body)}
      [] c.kind = "delete" -> {DeleteOne(store, seq, Val(c.id))}
      [] c.kind = "clear"  -> {DeleteAll(store, seq)}

\* The server handles one of the requests on their way, in any order; the
\* answered calls stand behind the others in the order they were answered.
Serve(k) ==
    /\ k \in DOMAIN net
    /\ net[k].phase = "sent"
    /\ \E out \in Outcomes(net[k]) :
        /\ store' = out.rows
        /\ seq' = out.seq
        /\ net' = Append(Remove(net, k),
              [net[k] EXCEPT !.phase = "answered", !.status = out.status,
                             !.res = out.body])
    /\ UNCHANGED <<exchange, uiVars, formVars, overtaken, memoVars>>

Answered(k, kind) ==
    /\ k \in DOMAIN net
    /\ net[k].phase = "answered"
    /\ net[k].kind = kind

\* fetchTransactions after its await: setTransactions(data), setLoading(false)
\* and then what the caller does after `await fetchTransactions()`
SettleFetch(k) ==
    /\ Answered(k, "fetch")
    /\ transactions' = net[k].res
    /\ loading' = FALSE
    /\ overtaken' = (overtaken \/ \E j \in 1..(k - 1) : Answered(j, "fetch"))
    /\ isDeleting' = IF net[k].next = "delete" THEN None ELSE isDeleting
    /\ isClearingAll' = IF net[k].next = "clear" THEN FALSE ELSE isClearingAll
    /\ isReportOpen' = IF net[k].next = "clear" THEN FALSE ELSE isReportOpen
    /\ net' = Remove(net, k)
    /\ UNCHANGED <<serverVars, exchange, isFormOpen, editingTransaction,
                   formVars, memoVars>>

\* Mutation: handleSubmit closes and resets the form without fetching the
\* list again.
SettleSaveNoFetch(k) ==
    /\ Answered(k, "save")
    /\ net' = Remove(net, k)
    /\ isFormOpen' = FALSE
    /\ ResetForm
    /\ UNCHANGED <<serverVars, exchange, transactions, loading, isReportOpen,
                   isDeleting, isClearingAll, overtaken, memoVars>>

\* handleSubmit after its await (fetch resolves whatever the status):
\* fetchTransactions(), not awaited; setIsFormOpen(false); resetForm()
SettleSave(k) ==
    /\ Answered(k, "save")
    /\ net' = Append(Remove(net, k), FetchCall("none"))
    /\ isFormOpen' = FALSE
    /\ ResetForm
    /\ UNCHANGED <<serverVars, exchange, transactions, loading, isReportOpen,
                   isDeleting, isClearingAll, overtaken, memoVars>>

\* handleDelete after its await: a response that is not ok throws into the
\* catch (alert); otherwise the form is reset and closed when the closure's
\* editingTransaction has the deleted id, and the list is fetched again
SettleDelete(k) ==
    /\ Answered(k, "delete")
    /\ IF net[k].status # 200
       THEN /\ net' = Remove(net, k)
            /\ UNCHANGED <<isFormOpen, editingTransaction, formVars>>
       ELSE /\ net' = Append(Remove(net, k), FetchCall("delete"))
            /\ IF net[k].editing = net[k].id
               THEN ResetForm /\ isFormOpen' = FALSE
               ELSE UNCHANGED <<isFormOpen, editingTransaction, formVars>>
    /\ UNCHANGED <<serverVars, exchange, transactions, loading, isReportOpen,
                   isDeleting, isClearingAll, overtaken, memoVars>>

\* handleClearAll after its await
SettleClear(k) ==
    /\ Answered(k, "clear")
    /\ IF net[k].status # 200
       THEN net' = Remove(net, k)
       ELSE net' = Append(Remove(net, k), FetchCall("clear"))
    /\ UNCHANGED <<serverVars, exchange, uiVars, formVars, overtaken, memoVars>>

\* The statement of a save throws (database locked, disk full, I/O error):
\* POST has no try/catch and express answers 500, PUT answers 500 from its
\* catch; either way nothing is written.
ServeError(k) ==
    /\ k \in DOMAIN net
    /\ net[k].phase = "sent"
    /\ net[k].kind = "save"
    /\ net' = Append(Remove(net, k),
          [net[k] EXCEPT !.phase = "answered", !.status = 500,
                         !.res = IF net[k].id = None THEN "error page"
                                 ELSE [message |-> "Internal server error"]])
    /\ UNCHANGED <<serverVars, exchange, uiVars, formVars, overtaken, memoVars>>

\* A network error: the request does not reach the server and the promise
\* of fetch() rejects.
Reject(k) ==
    /\ k \in DOMAIN net
    /\ net[k].phase = "sent"
    /\ net[k].kind \in {"save", "fetch"}
    /\ net' = Append(Remove(net, k), [net[k] EXCEPT !.phase = "rejected"])
    /\ UNCHANGED <<serverVars, exchange, uiVars, formVars, overtaken, memoVars>>

Rejected(k, kind) ==
    /\ k \in DOMAIN net
    /\ net[k].phase = "rejected"
    /\ net[k].kind = kind

\* the catch of handleSubmit: console.error, and nothing else
CatchSave(k) ==
    /\ Rejected(k, "save")
    /\ net' = Remove(net, k)
    /\ UNCHANGED <<serverVars, exchange, uiVars, formVars, overtaken, memoVars>>

\* the catch and finally of fetchTransactions: console.error,
\* setLoading(false); the caller's await resolves
CatchFetch(k) ==
    /\ Rejected(k, "fetch")
    /\ loading' = FALSE
    /\ isDeleting' = IF net[k].next = "delete" THEN None ELSE isDeleting
    /\ isClearingAll' = IF net[k].next = "clear" THEN FALSE ELSE isClearingAll
    /\ isReportOpen' = IF net[k].next = "clear" THEN FALSE ELSE isReportOpen
    /\ net' = Remove(net, k)
    /\ UNCHANGED <<serverVars, exchange, transactions, isFormOpen,
                   editingTransaction, formVars, overtaken, memoVars>>

\* mount: useEffect(() => { fetchTransactions() }, [])
InitClient ==
    /\ InitServer
    /\ InitComponent
    /\ InitMemo
    /\ exchange = NoExchange
    /\ net = <<FetchCall("none")>>
    /\ overtaken = FALSE

Calls == 1..MaxCalls

\* positions of the rendered list
Listed == 1..MaxCreates

\* Spec: the whole client under a pointer, the user entering expenses of one
\* category, date and note with one of two amounts.
Next ==
    \/ OpenNew
    \/ \E k \in Listed : HandleEdit(k)
    \/ CloseForm
    \/ \E text \in {"10", "-5"} : SetAmount(text)
    \/ SetCategory("Food")
    \/ HandleSubmit(MaxCalls)
    \/ \E k \in Listed : AskDelete(k)
    \/ AskDeleteEditing
    \/ CancelDelete
    \/ HandleDelete
    \/ \E open \in BOOLEAN : SetIsReportOpen(open)
    \/ AskClearAll
    \/ CancelClearAll
    \/ HandleClearAll
    \/ \E k \in Calls : Serve(k)
    \/ \E k \in Calls : SettleFetch(k)
    \/ \E k \in Calls : SettleSave(k)
    \/ \E k \in Calls : SettleDelete(k)
    \/ \E k \in Calls : SettleClear(k)

Spec == InitClient /\ [][Next]_vars

\* no call of the client is outstanding
Quiescent == net = <<>>

\* the client's list holds the rows of the store, as a list response would
InSync == transactions \in Listings(store)

\* C5 as stated: once every outstanding request has been answered, the
\* client's transactions state equals the content of the store, whatever the
\* order in which the responses arrived.
C5_AsStated == Quiescent => InSync

\* a call of the given kind stands last in net, as a request not yet served
Refetched(kind) ==
    /\ net' # <<>>
    /\ net'[Len(net')].kind = "fetch"
    /\ net'[Len(net')].phase = "sent"
    /\ net'[Len(net')].next = kind

\* handleSubmit fetches the list when its request is answered, handleDelete
\* and handleClearAll when theirs is answered with success.
RefetchAfterMutation ==
    \A k \in Calls :
        /\ SettleSave(k) => Refetched("none")
        /\ SettleDelete(k) /\ net[k].status = 200 => Refetched("delete")
        /\ SettleClear(k) /\ net[k].status = 200 => Refetched("clear")

\* C5 (amended): after every client mutation whose request was answered
\* (handleSubmit) or answered with success (handleDelete, handleClearAll)
\* the client fetches the list again, and once every outstanding request has
\* been answered the client's transactions state equals the content of the
\* store, provided no list response was applied before a list response the
\* server had produced earlier.
C5_InSyncWhenInOrder ==
    /\ [](Quiescent /\ ~overtaken => InSync)
    /\ [][RefetchAfterMutation]_vars

\* All calls answered after creates, an update or a delete, with rows left
\* in the store and in the client's list.
C5_Witness ==
    /\ Quiescent
    /\ ~overtaken
    /\ seq = MaxCreates
    /\ store # {}
    /\ Len(transactions) = Cardinality(store)

\* calls of a kind the client has issued and not yet settled
CallsOf(n, kind) == {k \in DOMAIN n : n[k].kind = kind}

\* this step issues a request of the kind
Sends(kind) == Cardinality(CallsOf(net', kind)) > Cardinality(CallsOf(net, kind))

\* the request this step has issued
Sent == net'[Len(net')]

SubmitAddressesEditing ==
    HandleSubmit(MaxCalls) =>
        /\ Sent.kind = "save"
        /\ Sent.id = (IF editingTransaction = None THEN None
                      ELSE Some(Val(editingTransaction).id))

\* the new-entry button leaves the form open with editingTransaction null,
\* and while the form stays open editingTransaction stays null
NewFormStaysNew ==
    /\ OpenNew => isFormOpen' /\ editingTransaction' = None
    /\ isFormOpen /\ isFormOpen' /\ editingTransaction = None =>
          editingTransaction' = None

\* editingTransaction does not refer to id i
NotEditing(e, i) == e = None \/ Some(Val(e).id) # i

\* C17: handleSubmit updates the id of editingTransaction when one is set
\* and creates otherwise; the new-entry button resets editingTransaction to
\* null, which it stays while that form is open, so a submit from it never
\* overwrites a transaction; and when handleDelete of id i has succeeded
\* editingTransaction does not refer to i and the form is closed.
C17_SubmitTargetsEditing ==
    [][/\ SubmitAddressesEditing
       /\ NewFormStaysNew
       /\ \A k \in Calls :
             SettleDelete(k) /\ net[k].status = 200 =>
                 /\ NotEditing(editingTransaction', net[k].id)
                 /\ ~isFormOpen']_vars

\* What handleDelete keeps of C17: it compares the deleted id with the
\* editingTransaction of the render in which Delete was pressed, and resets
\* and closes the form when that one had the deleted id.
C17_DeleteResetsPressedEditing ==
    [][/\ SubmitAddressesEditing
       /\ NewFormStaysNew
       /\ \A k \in Calls :
             SettleDelete(k) /\ net[k].status = 200 =>
                 IF net[k].editing = net[k].id
                 THEN editingTransaction' = None /\ ~isFormOpen'
                 ELSE /\ editingTransaction' = editingTransaction
                      /\ isFormOpen' = isFormOpen]_vars

----------------------------------------------------------------------------
(* SpecForm: a store filled through the form only *)

\* calls in flight while the user of SpecForm submits
MaxFormCalls == 1

\* SpecForm: creating, editing and saving entries with the type, the amount
\* and the category varied, the date and the note left as the form sets
\* them; nothing is deleted.
NextForm ==
    \/ OpenNew
    \/ \E k \in Listed : HandleEdit(k)
    \/ CloseForm
    \/ \E ty \in TransactionTypes : SetType(ty)
    \/ \E text \in {"", "10", "0", "-5"} : SetAmount(text)
    \/ \E c \in {"", "Food", "Other", "Salary"} : SetCategory(c)
    \/ ClearDetails
    \/ HandleSubmit(MaxFormCalls)
    \/ \E k \in Calls : Serve(k)
    \/ \E k \in Calls : SettleFetch(k)
    \/ \E k \in Calls : SettleSave(k)

SpecForm == InitClient /\ [][NextForm]_vars

\* C7: every transaction handleSubmit sends has an amount greater than
\* zero, so a store filled through the form holds no zero or negative
\* amount.
C7_PositiveAmounts ==
    /\ \A k \in DOMAIN net :
          net[k].kind = "save" => Val(net[k].body.amount) > 0
    /\ \A r \in store : r.amount > 0

\* C8: in a store filled through the form, the category of every stored
\* transaction is one of CATEGORIES[type] for the transaction's own type.
C8_CategoryOfType ==
    \A r \in store :
        /\ r.type \in DOMAIN CATEGORIES
        /\ r.category \in Range(CATEGORIES[r.type])

\* An update sent from the edit form of an expense has been applied and has
\* made the row a revenue with a revenue category.
C8_Witness ==
    \E k \in DOMAIN net :
        /\ net[k].kind = "save"
        /\ net[k].phase = "answered"
        /\ net[k].status = 200
        /\ net[k].id # None
        /\ editingTransaction # None
        /\ Val(editingTransaction).type = "expense"
        /\ \E r \in store :
              /\ r.id = Val(net[k].id)
              /\ r.type = "revenue"
              /\ r.category = "Salary"

----------------------------------------------------------------------------
(* SpecSave: saves that fail *)

\* SpecSave: a revenue entered or edited through the form with every field
\* set to something other than what resetForm leaves, and saves that are
\* answered, answered with an error, or lost on the network.
NextSave ==
    \/ OpenNew
    \/ \E k \in Listed : HandleEdit(k)
    \/ CloseForm
    \/ SetType("revenue")
    \/ SetAmount("10")
    \/ SetCategory("Salary")
    \/ SetDate(Earlier)
    \/ SetNote("memo")
    \/ HandleSubmit(MaxFormCalls)
    \/ \E k \in Calls : Serve(k)
    \/ \E k \in Calls : ServeError(k)
    \/ \E k \in Calls : Reject(k)
    \/ \E k \in Calls : SettleFetch(k)
    \/ \E k \in Calls : SettleSave(k)
    \/ \E k \in Calls : CatchSave(k)
    \/ \E k \in Calls : CatchFetch(k)

SpecSave == InitClient /\ [][NextSave]_vars

\* the form is as it was: open or not, its five fields, editingTransaction
FormKept ==
    /\ isFormOpen' = isFormOpen
    /\ formVars' = formVars
    /\ editingTransaction' = editingTransaction

\* the form is closed and its fields are those resetForm sets
FormClosedAndReset ==
    /\ ~isFormOpen'
    /\ type' = "expense" /\ amount' = "" /\ category' = ""
    /\ date' = Today /\ note' = ""
    /\ editingTransaction' = None

\* C18: handleSubmit closes and resets the form only when the save
\* succeeded: when the request fails, by a network error or by an error
\* response of the server, the form stays open, the entered type, amount,
\* category, date and note are kept and editingTransaction is unchanged.
C18_FormKeptOnFailure ==
    [][\A k \in Calls :
          /\ CatchSave(k) => FormKept
          /\ SettleSave(k) =>
                IF net[k].status = 200 THEN FormClosedAndReset ELSE FormKept]_vars

\* What handleSubmit keeps of C18: the form is kept when fetch() rejects,
\* and closed and reset when the request is answered, whatever the status.
C18_FormKeptOnNetworkError ==
    [][\A k \in Calls :
          /\ CatchSave(k) => FormKept
          /\ SettleSave(k) => FormClosedAndReset]_vars

====
